---- MODULE Spec2Model ----
(***************************************************************************)
(* InterTask contract protocol (src/index.js, lines 206-383): the          *)
(* transaction handlers add_task, complete_task, cancel_task and the view  *)
(* handlers list_tasks, get_task, stats, run against the key/value + set   *)
(* Store handed to them as `state`.                                        *)
(*                                                                         *)
(* In Spec, SpecParams and SpecNodes a handler is applied as one step (the  *)
(* replication layer applies one ordered operation at a time).  A handler  *)
(* that throws half way keeps the Store writes it made before the throw.   *)
(* In SpecAwait and SpecAwaitAdd a handler is a sequence of steps, one per *)
(* await, and the handlers in flight interleave.                           *)
(***************************************************************************)
EXTENDS Integers, Sequences, FiniteSets, TLC

\* ------------------------------------------------------------------------
\* Bounds of the model
\* ------------------------------------------------------------------------
MaxTasks == 2      \* add_task is not offered once task_seq reached this
MaxClock == 1      \* Date.now() readings range over 0..MaxClock

\* ------------------------------------------------------------------------
\* Program constants
\* ------------------------------------------------------------------------
MaxTitleLen == 140
MaxDescLen == 1000
IdWidth == 6

\* ------------------------------------------------------------------------
\* JavaScript values that reach the handlers as params: a tag and, for a
\* string, its characters.
\* ------------------------------------------------------------------------
Str(s) == [type |-> "string", v |-> s]
Num(s) == [type |-> "number", v |-> s]
null == [type |-> "null", v |-> ""]
undefined == [type |-> "undefined", v |-> ""]

\* !x
falsy(x) ==
    \/ x.type \in {"null", "undefined"}
    \/ x.type = "string" /\ x.v = ""
    \/ x.type = "number" /\ x.v = "0"

\* x.length exists (strings only, among the values modelled)
hasLength(x) == x.type = "string"

\* x.trim exists
hasTrim(x) == x.type = "string"

RECURSIVE trimStart(_)
trimStart(s) ==
    IF Len(s) > 0 /\ SubSeq(s, 1, 1) = " " THEN trimStart(SubSeq(s, 2, Len(s))) ELSE s

RECURSIVE trimEnd(_)
trimEnd(s) ==
    IF Len(s) > 0 /\ SubSeq(s, Len(s), Len(s)) = " "
    THEN trimEnd(SubSeq(s, 1, Len(s) - 1)) ELSE s

\* String.prototype.trim
trim(s) == trimEnd(trimStart(s))

\* String.prototype.padStart(width, fill) with a one-character fill
RECURSIVE padStart(_, _, _)
padStart(s, width, fill) ==
    IF Len(s) >= width THEN s ELSE padStart(fill \o s, width, fill)

\* `task_${String(id).padStart(6, '0')}`
taskId(n) == "task_" \o padStart(ToString(n), IdWidth, "0")

\* `task:${id}`
taskKey(id) == "task:" \o id

\* `tasks:assignee:${assignee}`
assigneeKey(a) == "tasks:assignee:" \o a

\* ------------------------------------------------------------------------
\* The Store (`state` in the handlers): a map from key to value
\* ------------------------------------------------------------------------
EmptyStore == [k \in {} |-> 0]

has(st, key) == key \in DOMAIN st

\* state.get(key): the value, or undefined
get(st, key) == IF has(st, key) THEN st[key] ELSE undefined

\* state.set(key, value)
set(st, key, value) ==
    [k \in DOMAIN st \cup {key} |-> IF k = key THEN value ELSE st[k]]

\* state.increment that answers 1 whatever the counter holds
incremented_unread(st, key) == 1

\* the counter value state.increment(key) returns
incremented(st, key) == (IF has(st, key) THEN st[key] ELSE 0) + 1

\* state.increment(key): the Store afterwards
increment(st, key) == set(st, key, incremented(st, key))

\* state.smembers(key) ?? []
smembers(st, key) == IF has(st, key) THEN st[key] ELSE {}

\* state.sadd(key, member)
sadd(st, key, member) == set(st, key, smembers(st, key) \cup {member})

\* state.srem(key, member)
srem(st, key, member) == set(st, key, smembers(st, key) \ {member})

\* ------------------------------------------------------------------------
\* Handler outcomes: the Store the handler leaves behind, what its promise
\* settles to, and the notifications it handed to broadcast().
\* ------------------------------------------------------------------------
Return(st, result, sent) == [state |-> st, result |-> result, sent |-> sent]

Throw(st, message, sent) ==
    [state |-> st, result |-> [success |-> FALSE, error |-> message], sent |-> sent]

\* the handler returned { success: true, ... }
success(out) == "success" \in DOMAIN out.result /\ out.result.success

\* the message of the error the handler threw, "" when it returned
error(out) == IF "error" \in DOMAIN out.result THEN out.result.error ELSE ""

\* JSON.stringify({ type: 'task_update', id, status })
task_update(id, status) == [type |-> "task_update", id |-> id, status |-> status]

\* const { name = dflt } = params
destructure(params, name, dflt) ==
    IF name \in DOMAIN params /\ params[name] # undefined THEN params[name] ELSE dflt

\* obj[field] = value, on a record
assign(obj, field, value) ==
    [k \in DOMAIN obj \cup {field} |-> IF k = field THEN value ELSE obj[k]]

\* add_task, from the id allocation on (lines 229-254).  t1 and t2 are the
\* two Date.now() readings, bcast tells whether broadcast() resolves.
add_task_apply(st, signer, title, desc, assignee, t1, t2, bcast) ==
    LET id == incremented(st, "task_seq")
        st1 == increment(st, "task_seq")
        tid == taskId(id)
    IN  IF ~hasTrim(desc) THEN Throw(st1, "TypeError", <<>>)
        ELSE
        LET task == [id |-> tid,
                     title |-> trim(title.v),
                     desc |-> trim(desc.v),
                     assignee |-> assignee,
                     creator |-> signer,
                     status |-> "open",
                     created_at |-> t1,
                     updated_at |-> t2]
            st2 == set(st1, taskKey(tid), task)
            st3 == sadd(st2, "tasks:all", tid)
            st4 == sadd(st3, "tasks:open", tid)
            st5 == IF ~falsy(assignee) THEN sadd(st4, assigneeKey(assignee.v), tid)
                   ELSE st4
        IN  IF ~bcast THEN Throw(st5, "broadcast failed", <<>>)
            ELSE Return(st5, [success |-> TRUE, id |-> tid, task |-> task],
                        <<task_update(tid, "open")>>)

\* transactions.add_task (lines 222-255)
add_task(st, signer, params, t1, t2, bcast) ==
    LET title == destructure(params, "title", undefined)
        desc == destructure(params, "desc", Str(""))
        assignee == destructure(params, "assignee", null)
    IN  IF falsy(title) \/ title.type # "string" THEN Throw(st, "title is required", <<>>)
        ELSE IF Len(title.v) > MaxTitleLen
        THEN Throw(st, "title exceeds 140 characters", <<>>)
        ELSE IF desc.type = "null" THEN Throw(st, "TypeError", <<>>)
        ELSE IF hasLength(desc) /\ Len(desc.v) > MaxDescLen
        THEN Throw(st, "desc exceeds 1000 characters", <<>>)
        ELSE add_task_apply(st, signer, title, desc, assignee, t1, t2, bcast)

\* complete_task_apply without the srem of line 278
complete_task_apply_keeps_open(st, signer, id, task0, t, bcast) ==
    LET task == assign(assign(assign(task0, "status", "completed"),
                              "updated_at", t), "completed_by", signer)
        st1 == set(st, taskKey(id), task)
        st3 == sadd(st1, "tasks:completed", id)
    IN  IF ~bcast THEN Throw(st3, "broadcast failed", <<>>)
        ELSE Return(st3, [success |-> TRUE, id |-> id, task |-> task],
                    <<task_update(id, "completed")>>)

\* complete_task_apply whose srem names tasks:all
complete_task_apply_srem_all(st, signer, id, task0, t, bcast) ==
    LET task == assign(assign(assign(task0, "status", "completed"),
                              "updated_at", t), "completed_by", signer)
        st1 == set(st, taskKey(id), task)
        st2 == srem(st1, "tasks:all", id)
        st3 == sadd(st2, "tasks:completed", id)
    IN  IF ~bcast THEN Throw(st3, "broadcast failed", <<>>)
        ELSE Return(st3, [success |-> TRUE, id |-> id, task |-> task],
                    <<task_update(id, "completed")>>)

\* complete_task, the writes and the broadcast (lines 273-283)
complete_task_apply(st, signer, id, task0, t, bcast) ==
    LET task == assign(assign(assign(task0, "status", "completed"),
                              "updated_at", t), "completed_by", signer)
        st1 == set(st, taskKey(id), task)
        st2 == srem(st1, "tasks:open", id)
        st3 == sadd(st2, "tasks:completed", id)
    IN  IF ~bcast THEN Throw(st3, "broadcast failed", <<>>)
        ELSE Return(st3, [success |-> TRUE, id |-> id, task |-> task],
                    <<task_update(id, "completed")>>)

\* the authorization test of complete_task (line 270)
isAuthorized(task, signer) == task.creator = signer \/ task.assignee = Str(signer)

\* complete_task without the status test of line 268
complete_task_any_status(st, signer, params, t, bcast) ==
    LET id == destructure(params, "id", undefined)
        task == get(st, taskKey(id.v))
    IN  IF falsy(id) THEN Throw(st, "id is required", <<>>)
        ELSE IF task = undefined THEN Throw(st, "not found", <<>>)
        ELSE IF ~isAuthorized(task, signer)
        THEN Throw(st, "Only the creator or assignee may complete this task", <<>>)
        ELSE complete_task_apply(st, signer, id.v, task, t, bcast)

\* complete_task with the authorization test ahead of the status test
complete_task_auth_first(st, signer, params, t, bcast) ==
    LET id == destructure(params, "id", undefined)
        task == get(st, taskKey(id.v))
    IN  IF falsy(id) THEN Throw(st, "id is required", <<>>)
        ELSE IF task = undefined THEN Throw(st, "not found", <<>>)
        ELSE IF ~isAuthorized(task, signer)
        THEN Throw(st, "Only the creator or assignee may complete this task", <<>>)
        ELSE IF task.status # "open" THEN Throw(st, "is not open", <<>>)
        ELSE complete_task_apply(st, signer, id.v, task, t, bcast)

\* transactions.complete_task (lines 262-284)
complete_task(st, signer, params, t, bcast) ==
    LET id == destructure(params, "id", undefined)
        task == get(st, taskKey(id.v))
    IN  IF falsy(id) THEN Throw(st, "id is required", <<>>)
        ELSE IF task = undefined THEN Throw(st, "not found", <<>>)
        ELSE IF task.status # "open" THEN Throw(st, "is not open", <<>>)
        ELSE IF ~isAuthorized(task, signer)
        THEN Throw(st, "Only the creator or assignee may complete this task", <<>>)
        ELSE complete_task_apply(st, signer, id.v, task, t, bcast)

\* cancel_task_apply that announces the status of complete_task
cancel_task_apply_sends_completed(st, signer, id, task0, t, bcast) ==
    LET task == assign(assign(assign(task0, "status", "cancelled"),
                              "updated_at", t), "cancelled_by", signer)
        st1 == set(st, taskKey(id), task)
        st2 == srem(st1, "tasks:open", id)
        st3 == sadd(st2, "tasks:cancelled", id)
    IN  IF ~bcast THEN Throw(st3, "broadcast failed", <<>>)
        ELSE Return(st3, [success |-> TRUE, id |-> id, task |-> task],
                    <<task_update(id, "completed")>>)

\* cancel_task, the writes and the broadcast (lines 304-314)
cancel_task_apply(st, signer, id, task0, t, bcast) ==
    LET task == assign(assign(assign(task0, "status", "cancelled"),
                              "updated_at", t), "cancelled_by", signer)
        st1 == set(st, taskKey(id), task)
        st2 == srem(st1, "tasks:open", id)
        st3 == sadd(st2, "tasks:cancelled", id)
    IN  IF ~bcast THEN Throw(st3, "broadcast failed", <<>>)
        ELSE Return(st3, [success |-> TRUE, id |-> id, task |-> task],
                    <<task_update(id, "cancelled")>>)

\* mayCancel that lets the assignee through as complete_task does
mayCancel_or_assignee(task, signer, isAdmin) ==
    task.creator = signer \/ isAdmin \/ task.assignee = Str(signer)

\* the authorization test of cancel_task (line 300), negated
mayCancel(task, signer, isAdmin) == task.creator = signer \/ isAdmin

\* transactions.cancel_task (lines 291-315); isAdmin is the answer of
\* peer.isAdmin(signer)
cancel_task(st, signer, params, isAdmin, t, bcast) ==
    LET id == destructure(params, "id", undefined)
        task == get(st, taskKey(id.v))
    IN  IF falsy(id) THEN Throw(st, "id is required", <<>>)
        ELSE IF task = undefined THEN Throw(st, "not found", <<>>)
        ELSE IF task.status # "open" THEN Throw(st, "is not open", <<>>)
        ELSE IF ~mayCancel(task, signer, isAdmin)
        THEN Throw(st, "Only the creator or an admin may cancel this task", <<>>)
        ELSE cancel_task_apply(st, signer, id.v, task, t, bcast)

\* ------------------------------------------------------------------------
\* View handlers
\* ------------------------------------------------------------------------

\* the key whose members list_tasks enumerates (lines 333-339)
listKey(params) ==
    LET status == destructure(params, "status", undefined)
        assignee == destructure(params, "assignee", undefined)
    IN  IF ~falsy(assignee) THEN assigneeKey(assignee.v)
        ELSE IF ~falsy(status) THEN "tasks:" \o status.v
        ELSE "tasks:all"

\* collect without the status test of line 346
RECURSIVE collect_any_status(_, _, _)
collect_any_status(st, ids, status) ==
    IF ids = <<>> THEN <<>>
    ELSE LET t == get(st, taskKey(Head(ids)))
             rest == collect_any_status(st, Tail(ids), status)
         IN  IF t # undefined THEN <<t>> \o rest ELSE rest

\* the loop of list_tasks (lines 341-350) over the ids in the order given
RECURSIVE collect(_, _, _)
collect(st, ids, status) ==
    IF ids = <<>> THEN <<>>
    ELSE LET t == get(st, taskKey(Head(ids)))
             rest == collect(st, Tail(ids), status)
         IN  IF t # undefined /\ (falsy(status) \/ t.status = status.v)
             THEN <<t>> \o rest
             ELSE rest

\* insertion of t into a sequence sorted by descending created_at, after
\* every element that does not sort behind it (the sort is stable)
RECURSIVE insertSorted(_, _)
insertSorted(sorted, t) ==
    IF sorted = <<>> THEN <<t>>
    ELSE IF Head(sorted).created_at >= t.created_at
         THEN <<Head(sorted)>> \o insertSorted(Tail(sorted), t)
         ELSE <<t>> \o sorted

\* tasks.sort((a, b) => b.created_at - a.created_at) (line 352)
RECURSIVE sortTasks(_)
sortTasks(tasks) ==
    IF tasks = <<>> THEN <<>>
    ELSE insertSorted(sortTasks(SubSeq(tasks, 1, Len(tasks) - 1)), tasks[Len(tasks)])

\* views.list_tasks (lines 329-354); ids is the sequence smembers returned
list_tasks(st, params, ids) ==
    LET status == destructure(params, "status", undefined)
        tasks == sortTasks(collect(st, ids, status))
    IN  Return(st, [tasks |-> tasks, count |-> Len(tasks)], <<>>)

\* get_task that counts its calls in the Store
get_task_counting(st, params) ==
    LET id == destructure(params, "id", undefined)
        task == get(st, taskKey(id.v))
        st1 == increment(st, "task_reads")
    IN  IF falsy(id) THEN Throw(st, "id is required", <<>>)
        ELSE IF task = undefined THEN Throw(st1, "not found", <<>>)
        ELSE Return(st1, [task |-> task], <<>>)

\* views.get_task (lines 359-365)
get_task(st, params) ==
    LET id == destructure(params, "id", undefined)
        task == get(st, taskKey(id.v))
    IN  IF falsy(id) THEN Throw(st, "id is required", <<>>)
        ELSE IF task = undefined THEN Throw(st, "not found", <<>>)
        ELSE Return(st, [task |-> task], <<>>)

\* stats that takes total from the counter instead of tasks:all
stats_total_from_seq(st) ==
    Return(st, [total |-> incremented(st, "task_seq") - 1,
                open |-> Cardinality(smembers(st, "tasks:open")),
                completed |-> Cardinality(smembers(st, "tasks:completed")),
                cancelled |-> Cardinality(smembers(st, "tasks:cancelled"))], <<>>)

\* views.stats (lines 370-381)
stats(st) ==
    Return(st, [total |-> Cardinality(smembers(st, "tasks:all")),
                open |-> Cardinality(smembers(st, "tasks:open")),
                completed |-> Cardinality(smembers(st, "tasks:completed")),
                cancelled |-> Cardinality(smembers(st, "tasks:cancelled"))], <<>>)

\* ------------------------------------------------------------------------
\* State
\* ------------------------------------------------------------------------
VARIABLES
    state,      \* the Store of this node
    admins,     \* the identities peer.isAdmin answers true for
    clock,      \* the wall clock of this node, read by Date.now()
    last,       \* the handler call that settled last on this node and its outcome
    replica,    \* a second node: its Store, its clock, its last outcome
    flight      \* the handlers that are between two awaits, by handler

vars == <<state, admins, clock, last, replica, flight>>

\* ------------------------------------------------------------------------
\* Inputs
\* ------------------------------------------------------------------------
Peers == {"alice", "bob", "carol"}

\* addresses /add_admin is given
AdminCandidates == {"carol"}

\* the peers that sign add_task
Creators == {"alice"}

Title == Str("Write spec")

\* params of add_task: the shape the CLI sends (line 117), params with the
\* optional fields left out, an assignee, a missing title, a desc that is
\* not a string
AddParams ==
    { [title |-> Title, desc |-> Str(""), assignee |-> null],
      [title |-> Title],
      [title |-> Title, assignee |-> Str("bob")],
      [desc |-> Str("")],
      [title |-> Title, desc |-> Num("5")] }

\* a string of n copies of the character c
RECURSIVE Repeat(_, _)
Repeat(c, n) ==
    IF n = 0 THEN ""
    ELSE LET half == Repeat(c, n \div 2)
         IN  half \o half \o (IF n % 2 = 1 THEN c ELSE "")

\* params of add_task at and around what lines 225-227 and 247 test: titles
\* of 140 and 141 characters, a title with blanks around it, a title of
\* blanks only, an empty title, a title that is not a string, no title;
\* descs of 1000 and 1001 characters, a desc that is not a string; an
\* assignee, an empty assignee
AnyAddParams ==
    { [title |-> Str(Repeat("t", MaxTitleLen))],
      [title |-> Str(Repeat("t", MaxTitleLen + 1))],
      [title |-> Str("  Write spec ")],
      [title |-> Str("   ")],
      [title |-> Str("")],
      [title |-> Num("5")],
      [desc |-> Str("")],
      [title |-> Title, desc |-> Str(Repeat("d", MaxDescLen))],
      [title |-> Title, desc |-> Str(Repeat("d", MaxDescLen + 1))],
      [title |-> Title, desc |-> Num("5")],
      [title |-> Title, assignee |-> Str("bob")],
      [title |-> Title, assignee |-> Str("")] }

\* ids a caller may name: the ids add_task can have handed out, and one it
\* cannot
KnownIds == { taskId(n) : n \in 1..MaxTasks }

IdParams ==
    { [id |-> Str(i)] : i \in KnownIds \cup {"task_999999"} } \cup { [id |-> null] }

Statuses == {"open", "completed", "cancelled"}

\* identities list_tasks is asked about
Assignees == {"bob", "carol"}

\* params of list_tasks: the shape the CLI sends (line 150), and none
ListParams ==
    { [status |-> s, assignee |-> a] :
        s \in {null} \cup { Str(x) : x \in Statuses },
        a \in {null} \cup { Str(x) : x \in Assignees } }
    \cup { [x \in {} |-> null] }

\* the sequences that enumerate the set S
Enumerations(S) ==
    { q \in [1..Cardinality(S) -> S] : \A i, j \in 1..Cardinality(S) : q[i] = q[j] => i = j }

\* a call and how it ended: error is "" when the handler returned
Call(method, outcome) ==
    [method |-> method,
     error |-> IF "error" \in DOMAIN outcome.result THEN outcome.result.error ELSE "",
     sent |-> outcome.sent]

NoCall == [method |-> "none", error |-> "", sent |-> <<>>]

\* the handler calls that can be in flight at the same time
Handlers == {"h1", "h2"}

\* a handler that is not running
Idle ==
    [method |-> "none", pc |-> "idle", signer |-> "", params |-> [id |-> null],
     id |-> "", task |-> undefined, ids |-> <<>>, acc |-> <<>>]

\* ------------------------------------------------------------------------
\* Behaviour of one node
\* ------------------------------------------------------------------------
Init ==
    /\ state = EmptyStore
    /\ admins = {}
    /\ clock = 0
    /\ last = NoCall
    /\ replica = [state |-> EmptyStore, clock |-> 0, last |-> NoCall]
    /\ flight = [h \in Handlers |-> Idle]

\* time passes
Tick ==
    /\ clock < MaxClock
    /\ clock' = clock + 1
    /\ UNCHANGED <<state, admins, last, replica, flight>>

\* /add_admin --address a (lines 89-97), handled by the peer
AddAdmin ==
    \E a \in AdminCandidates :
        /\ a \notin admins
        /\ admins' = admins \cup {a}
        /\ last' = [method |-> "add_admin", error |-> "", sent |-> <<>>]
        /\ UNCHANGED <<state, clock, replica, flight>>

AddTask ==
    \E signer \in Creators, params \in AddParams, bcast \in BOOLEAN :
        LET out == add_task(state, signer, params, clock, clock, bcast) IN
        /\ incremented(state, "task_seq") <= MaxTasks
        /\ state' = out.state
        /\ last' = Call("add_task", out)
        /\ UNCHANGED <<admins, clock, replica, flight>>

CompleteTask ==
    \E signer \in Peers, params \in IdParams, bcast \in BOOLEAN :
        LET out == complete_task(state, signer, params, clock, bcast) IN
        /\ state' = out.state
        /\ last' = Call("complete_task", out)
        /\ UNCHANGED <<admins, clock, replica, flight>>

CancelTask ==
    \E signer \in Peers, params \in IdParams, bcast \in BOOLEAN :
        LET out == cancel_task(state, signer, params, signer \in admins, clock, bcast) IN
        /\ state' = out.state
        /\ last' = Call("cancel_task", out)
        /\ UNCHANGED <<admins, clock, replica, flight>>

ListTasks ==
    \E params \in ListParams :
    \E ids \in Enumerations(smembers(state, listKey(params))) :
        LET out == list_tasks(state, params, ids) IN
        /\ state' = out.state
        /\ last' = Call("list_tasks", out)
        /\ UNCHANGED <<admins, clock, replica, flight>>

GetTask ==
    \E params \in IdParams :
        LET out == get_task(state, params) IN
        /\ state' = out.state
        /\ last' = Call("get_task", out)
        /\ UNCHANGED <<admins, clock, replica, flight>>

Stats ==
    LET out == stats(state) IN
    /\ state' = out.state
    /\ last' = Call("stats", out)
    /\ UNCHANGED <<admins, clock, replica, flight>>

Next ==
    \/ AddAdmin
    \/ AddTask
    \/ CompleteTask
    \/ CancelTask
    \/ ListTasks
    \/ GetTask
    \/ Stats

Spec == Init /\ [][Next]_vars

\* ------------------------------------------------------------------------
\* Two nodes that apply the same ordered transactions, each against its own
\* Store and its own wall clock; broadcast resolves on both, and the admin
\* set stays as it is.
\* ------------------------------------------------------------------------

\* time passes on the second node
ReplicaTick ==
    /\ replica.clock < MaxClock
    /\ replica' = [replica EXCEPT !.clock = @ + 1]
    /\ UNCHANGED <<state, admins, clock, last, flight>>

ReplicatedAddTask ==
    \E signer \in Creators, params \in AddParams :
        LET a == add_task(state, signer, params, clock, clock, TRUE)
            b == add_task(replica.state, signer, params, replica.clock, replica.clock, TRUE)
        IN  /\ incremented(state, "task_seq") <= MaxTasks
            /\ state' = a.state
            /\ last' = Call("add_task", a)
            /\ replica' = [replica EXCEPT !.state = b.state,
                                          !.last = Call("add_task", b)]
            /\ UNCHANGED <<admins, clock, flight>>

ReplicatedCompleteTask ==
    \E signer \in Peers, params \in IdParams :
        LET a == complete_task(state, signer, params, clock, TRUE)
            b == complete_task(replica.state, signer, params, replica.clock, TRUE)
        IN  /\ state' = a.state
            /\ last' = Call("complete_task", a)
            /\ replica' = [replica EXCEPT !.state = b.state,
                                          !.last = Call("complete_task", b)]
            /\ UNCHANGED <<admins, clock, flight>>

ReplicatedCancelTask ==
    \E signer \in Peers, params \in IdParams :
        LET a == cancel_task(state, signer, params, signer \in admins, clock, TRUE)
            b == cancel_task(replica.state, signer, params, signer \in admins,
                             replica.clock, TRUE)
        IN  /\ state' = a.state
            /\ last' = Call("cancel_task", a)
            /\ replica' = [replica EXCEPT !.state = b.state,
                                          !.last = Call("cancel_task", b)]
            /\ UNCHANGED <<admins, clock, flight>>

NextNodes ==
    \/ Tick
    \/ ReplicaTick
    \/ ReplicatedAddTask
    \/ ReplicatedCompleteTask
    \/ ReplicatedCancelTask

SpecNodes == Init /\ [][NextNodes]_vars

\* ------------------------------------------------------------------------
\* One node whose add_task is sent params of every shape of AnyAddParams
\* ------------------------------------------------------------------------
AddAnyTask ==
    \E signer \in Creators, params \in AnyAddParams, bcast \in BOOLEAN :
        LET out == add_task(state, signer, params, clock, clock, bcast) IN
        /\ incremented(state, "task_seq") <= MaxTasks
        /\ state' = out.state
        /\ last' = Call("add_task", out)
        /\ UNCHANGED <<admins, clock, replica, flight>>

NextParams ==
    \/ AddAdmin
    \/ AddAnyTask
    \/ CompleteTask
    \/ CancelTask

SpecParams == Init /\ [][NextParams]_vars

\* ------------------------------------------------------------------------
\* Handlers in flight.  A handler is an async function: it runs from one
\* await to the next without a break, and between two awaits the other
\* handlers of Handlers may run.  A step is one awaited call (a Store call,
\* peer.isAdmin, broadcast) together with the code around it: the code that
\* leads to the call when it is the handler's first, and the code that
\* follows it up to the next await.
\* ------------------------------------------------------------------------

\* params of the handlers in flight
FlightAddParams == { [title |-> Title], [title |-> Title, assignee |-> Str("bob")] }

FlightIdParams == { [id |-> Str(i)] : i \in KnownIds }

FlightListParams == { [x \in {} |-> null] }

\* a call that settled, and what it returned
Settled(method, out) ==
    [method |-> method, error |-> error(out), sent |-> out.sent, result |-> out.result]

\* the handler h goes on as the record r; no call settles
Becomes(h, r) == flight' = [flight EXCEPT ![h] = r] /\ last' = NoCall

\* the handler h moves to the await pc
Awaits(h, pc) == Becomes(h, [flight[h] EXCEPT !.pc = pc])

\* the promise of the handler h settles as the outcome out
Settles(h, method, out) ==
    /\ flight' = [flight EXCEPT ![h] = Idle]
    /\ last' = Settled(method, out)

\* transactions.add_task (lines 222-255), await by await
FlightAddTask ==
    \E h \in Handlers :
        LET f == flight[h] IN
        \/ \* the call: lines 223-229, then lines 230-241
           /\ f.pc = "idle"
           /\ \E signer \in Creators, params \in FlightAddParams :
                LET out == add_task(state, signer, params, clock, clock, TRUE) IN
                /\ incremented(state, "task_seq") <= MaxTasks
                /\ IF out.state = state THEN UNCHANGED state
                   ELSE state' = increment(state, "task_seq")
                /\ IF success(out)
                   THEN Becomes(h, [Idle EXCEPT !.method = "add_task", !.pc = "set",
                                                !.signer = signer, !.params = params,
                                                !.id = out.result.id,
                                                !.task = out.result.task])
                   ELSE Settles(h, "add_task", Throw(state', error(out), <<>>))
        \/ \* line 243
           /\ f.method = "add_task" /\ f.pc = "set"
           /\ state' = set(state, taskKey(f.id), f.task)
           /\ Awaits(h, "sadd_all")
        \/ \* line 244
           /\ f.method = "add_task" /\ f.pc = "sadd_all"
           /\ state' = sadd(state, "tasks:all", f.id)
           /\ Awaits(h, "sadd_open")
        \/ \* line 245, then the test of line 247
           /\ f.method = "add_task" /\ f.pc = "sadd_open"
           /\ state' = sadd(state, "tasks:open", f.id)
           /\ Awaits(h, IF ~falsy(f.task.assignee) THEN "sadd_assignee" ELSE "broadcast")
        \/ \* line 248
           /\ f.method = "add_task" /\ f.pc = "sadd_assignee"
           /\ state' = sadd(state, assigneeKey(f.task.assignee.v), f.id)
           /\ Awaits(h, "broadcast")
        \/ \* lines 252-254
           /\ f.method = "add_task" /\ f.pc = "broadcast"
           /\ \E bcast \in BOOLEAN :
                Settles(h, "add_task",
                        IF bcast THEN Return(state, [success |-> TRUE, id |-> f.id, task |-> f.task],
                                             <<task_update(f.id, "open")>>)
                        ELSE Throw(state, "broadcast failed", <<>>))
           /\ UNCHANGED state
    /\ UNCHANGED <<admins, clock, replica>>

\* the three Store writes and the broadcast that end complete_task (lines
\* 277-283) and cancel_task (lines 308-314); f.task is the record the
\* handler read and then assigned to
FlightWrites(h, method) ==
    LET f == flight[h] IN
    \/ /\ f.method = method /\ f.pc = "set"
       /\ state' = set(state, taskKey(f.id), f.task)
       /\ Awaits(h, "srem")
    \/ /\ f.method = method /\ f.pc = "srem"
       /\ state' = srem(state, "tasks:open", f.id)
       /\ Awaits(h, "sadd")
    \/ /\ f.method = method /\ f.pc = "sadd"
       /\ state' = sadd(state, "tasks:" \o f.task.status, f.id)
       /\ Awaits(h, "broadcast")
    \/ /\ f.method = method /\ f.pc = "broadcast"
       /\ \E bcast \in BOOLEAN :
            Settles(h, method,
                    IF bcast THEN Return(state, [success |-> TRUE, id |-> f.id, task |-> f.task],
                                         <<task_update(f.id, f.task.status)>>)
                    ELSE Throw(state, "broadcast failed", <<>>))
       /\ UNCHANGED state

\* transactions.complete_task (lines 262-284), await by await
FlightCompleteTask ==
    \E h \in Handlers :
        \/ \* the call: lines 263-266, then lines 267-275
           /\ flight[h].pc = "idle"
           /\ \E signer \in Creators, params \in FlightIdParams :
                LET out == complete_task(state, signer, params, clock, TRUE) IN
                IF success(out)
                THEN Becomes(h, [Idle EXCEPT !.method = "complete_task", !.pc = "set",
                                             !.signer = signer, !.params = params,
                                             !.id = out.result.id,
                                             !.task = out.result.task])
                ELSE Settles(h, "complete_task", out)
           /\ UNCHANGED state
        \/ FlightWrites(h, "complete_task")
    /\ UNCHANGED <<admins, clock, replica>>

\* transactions.cancel_task (lines 291-315), await by await
FlightCancelTask ==
    \E h \in Handlers :
        LET f == flight[h] IN
        \/ \* the call: lines 292-295, then lines 296-297
           /\ f.pc = "idle"
           /\ \E signer \in Creators, params \in FlightIdParams :
                LET id == destructure(params, "id", undefined)
                    task == get(state, taskKey(id.v))
                IN  IF falsy(id) THEN Settles(h, "cancel_task", Throw(state, "id is required", <<>>))
                    ELSE IF task = undefined
                    THEN Settles(h, "cancel_task", Throw(state, "not found", <<>>))
                    ELSE IF task.status # "open"
                    THEN Settles(h, "cancel_task", Throw(state, "is not open", <<>>))
                    ELSE Becomes(h, [Idle EXCEPT !.method = "cancel_task", !.pc = "isAdmin",
                                                 !.signer = signer, !.params = params,
                                                 !.id = id.v, !.task = task])
           /\ UNCHANGED state
        \/ \* line 299, then lines 300-306
           /\ f.method = "cancel_task" /\ f.pc = "isAdmin"
           /\ IF ~mayCancel(f.task, f.signer, f.signer \in admins)
              THEN Settles(h, "cancel_task",
                           Throw(state, "Only the creator or an admin may cancel this task", <<>>))
              ELSE Becomes(h, [f EXCEPT !.pc = "set",
                                        !.task = cancel_task_apply(state, f.signer, f.id, f.task,
                                                                   clock, TRUE).result.task])
           /\ UNCHANGED state
        \/ FlightWrites(h, "cancel_task")
    /\ UNCHANGED <<admins, clock, replica>>

\* views.list_tasks (lines 329-354), await by await; f.ids are the ids still
\* to fetch, f.acc is `tasks`
FlightListTasks ==
    \E h \in Handlers :
        LET f == flight[h]
            status == destructure(f.params, "status", undefined)
            t == get(state, taskKey(Head(f.ids)))
            tasks == IF t # undefined /\ (falsy(status) \/ t.status = status.v)
                     THEN Append(f.acc, t) ELSE f.acc
            returned(found) ==
                Return(state, [tasks |-> sortTasks(found), count |-> Len(found)], <<>>)
        IN  \/ \* the call: lines 330-339, one of the three smembers
               /\ f.pc = "idle"
               /\ \E params \in FlightListParams :
                  \E ids \in Enumerations(smembers(state, listKey(params))) :
                    IF ids = <<>> THEN Settles(h, "list_tasks", returned(<<>>))
                    ELSE Becomes(h, [Idle EXCEPT !.method = "list_tasks", !.pc = "get",
                                                 !.params = params, !.ids = ids])
            \/ \* line 343, then lines 344-349 and, after the last id, 352-353
               /\ f.method = "list_tasks" /\ f.pc = "get"
               /\ IF Len(f.ids) = 1 THEN Settles(h, "list_tasks", returned(tasks))
                  ELSE Becomes(h, [f EXCEPT !.ids = Tail(f.ids), !.acc = tasks])
    /\ UNCHANGED <<state, admins, clock, replica>>

\* views.stats (lines 370-381), await by await; f.acc are the lengths read
FlightStats ==
    \E h \in Handlers :
        LET f == flight[h]
            read(key) == Append(f.acc, Cardinality(smembers(state, key)))
        IN  \/ \* the call: line 371
               /\ f.pc = "idle"
               /\ Becomes(h, [Idle EXCEPT !.method = "stats", !.pc = "open",
                                          !.acc = read("tasks:all")])
            \/ \* line 372
               /\ f.method = "stats" /\ f.pc = "open"
               /\ Becomes(h, [f EXCEPT !.pc = "completed", !.acc = read("tasks:open")])
            \/ \* line 373
               /\ f.method = "stats" /\ f.pc = "completed"
               /\ Becomes(h, [f EXCEPT !.pc = "cancelled", !.acc = read("tasks:completed")])
            \/ \* line 374, then lines 375-380
               /\ f.method = "stats" /\ f.pc = "cancelled"
               /\ Settles(h, "stats",
                          Return(state, [total |-> f.acc[1], open |-> f.acc[2],
                                         completed |-> f.acc[3],
                                         cancelled |-> Cardinality(smembers(state, "tasks:cancelled"))],
                                 <<>>))
    /\ UNCHANGED <<state, admins, clock, replica>>

NextAwait ==
    \/ FlightAddTask
    \/ FlightCompleteTask
    \/ FlightCancelTask
    \/ FlightListTasks
    \/ FlightStats

SpecAwait == Init /\ [][NextAwait]_vars

\* add_task handlers in flight, and no others
NextAwaitAdd == FlightAddTask

SpecAwaitAdd == Init /\ [][NextAwaitAdd]_vars

\* ------------------------------------------------------------------------
\* Reading the Store
\* ------------------------------------------------------------------------

\* the keys `task:<id>` of a Store
TaskKeys(st) == { k \in DOMAIN st : Len(k) > 5 /\ SubSeq(k, 1, 5) = "task:" }

\* the task records of a Store
Tasks(st) == { st[k] : k \in TaskKeys(st) }

\* the value of the counter task_seq (0 before the first increment)
task_seq(st) == incremented(st, "task_seq") - 1

\* the status sets a task id is a member of
StatusSetsOf(st, id) == { s \in Statuses : id \in smembers(st, "tasks:" \o s) }

\* the keys `tasks:assignee:<address>` of a Store
AssigneeKeys(st) ==
    { k \in DOMAIN st : Len(k) >= 15 /\ SubSeq(k, 1, 15) = "tasks:assignee:" }

Transactions == {"add_task", "complete_task", "cancel_task"}

Views == {"list_tasks", "get_task", "stats"}

\* ------------------------------------------------------------------------
\* C1: every task record of the Store is stored under the key of its id,
\* its id is in tasks:all and in exactly one of tasks:open, tasks:completed
\* and tasks:cancelled, and that one is the set named by its status field.
\* ------------------------------------------------------------------------
C1_StatusIndexAgrees ==
    \A k \in TaskKeys(state) :
        LET t == state[k] IN
        /\ k = taskKey(t.id)
        /\ t.id \in smembers(state, "tasks:all")
        /\ StatusSetsOf(state, t.id) = {t.status}

\* a task cancelled by the admin exists, after an add_task that threw past
\* its validation and a complete_task that named no task
C1_Witness ==
    /\ \E t \in Tasks(state) : t.status = "cancelled" /\ t.cancelled_by = "carol"
    /\ task_seq(state) > Cardinality(TaskKeys(state))
    /\ last.method = "complete_task" /\ last.error = "not found"

\* ------------------------------------------------------------------------
\* C2 (as claimed): an add_task that creates a task gives it an id no
\* task has yet and raises task_seq by exactly 1, an add_task that creates
\* none leaves task_seq alone, and so task_seq equals the number of tasks
\* created.
\* ------------------------------------------------------------------------
C2_SeqCountsTasks ==
    [][ last'.method = "add_task" =>
          /\ IF TaskKeys(state') # TaskKeys(state)
             THEN /\ task_seq(state') = task_seq(state) + 1
                  /\ Cardinality(TaskKeys(state')) = Cardinality(TaskKeys(state)) + 1
             ELSE task_seq(state') = task_seq(state)
          /\ task_seq(state') = Cardinality(TaskKeys(state')) ]_vars

\* ------------------------------------------------------------------------
\* C3 (as claimed): a transaction that ends in an error leaves the Store as
\* it was before the call.
\* ------------------------------------------------------------------------
C3_FailureLeavesStore ==
    [][ last'.method \in Transactions /\ last'.error # "" => state' = state ]_vars

\* the tasks of the Store that are open
Open(st) == { t \in Tasks(st) : t.status = "open" }

\* the tasks of the Store that are completed or cancelled
Terminal(st) == { t \in Tasks(st) : t.status \in {"completed", "cancelled"} }

\* a step keeps every task, and keeps its status or moves it from open to
\* completed or cancelled
StatusStep ==
    state' # state =>
    \A k \in TaskKeys(state) :
        /\ k \in TaskKeys(state')
        /\ \/ state'[k].status = state[k].status
           \/ /\ state[k].status = "open"
              /\ state'[k].status \in {"completed", "cancelled"}

\* complete_task and cancel_task on a completed or cancelled task, whoever
\* signs, admin or not, whatever broadcast would do: rejected as not open,
\* the Store stays, nothing is sent
TerminalRejects ==
    \A t \in Terminal(state) : \A signer \in Peers : \A isAdmin, bcast \in BOOLEAN :
        LET params == [id |-> Str(t.id)]
            c == complete_task(state, signer, params, clock, bcast)
            x == cancel_task(state, signer, params, isAdmin, clock, bcast)
        IN  /\ error(c) = "is not open" /\ c.state = state /\ c.sent = <<>>
            /\ error(x) = "is not open" /\ x.state = state /\ x.sent = <<>>

\* ------------------------------------------------------------------------
\* C4: in every step a task's status stays the same or goes from open to
\* completed or to cancelled; and every complete_task or cancel_task on a
\* completed or cancelled task is rejected with the not-open error and
\* leaves the Store as it is, whoever signs it.
\* ------------------------------------------------------------------------
C4_StatusOneWay == [][StatusStep]_vars /\ []TerminalRejects

\* a task was completed by alice and one was cancelled, and the last call,
\* a cancel_task, was rejected because its task is not open
C4_Witness ==
    /\ \E t \in Tasks(state) : t.status = "completed" /\ t.completed_by = "alice"
    /\ \E t \in Tasks(state) : t.status = "cancelled"
    /\ last.method = "cancel_task" /\ last.error = "is not open"

\* ------------------------------------------------------------------------
\* C5 (as claimed): complete_task on an open task succeeds exactly when the
\* signer is the task's creator or its assignee, and a signer that is
\* neither gets the authorization error, admin or not.
\* ------------------------------------------------------------------------
C5_CompleteIffCreatorOrAssignee ==
    \A t \in Open(state) : \A signer \in Peers : \A bcast \in BOOLEAN :
        LET out == complete_task(state, signer, [id |-> Str(t.id)], clock, bcast)
            allowed == signer = t.creator \/ Str(signer) = t.assignee
        IN  /\ success(out) <=> allowed
            /\ ~allowed =>
                 error(out) = "Only the creator or assignee may complete this task"

\* ------------------------------------------------------------------------
\* C6 (as claimed): cancel_task on an open task succeeds exactly when the
\* signer is the task's creator or peer.isAdmin answers true for it, and a
\* signer that is neither gets the authorization error, assignee or not.
\* ------------------------------------------------------------------------
C6_CancelIffCreatorOrAdmin ==
    \A t \in Open(state) : \A signer \in Peers : \A bcast \in BOOLEAN :
        LET out == cancel_task(state, signer, [id |-> Str(t.id)],
                               signer \in admins, clock, bcast)
            allowed == signer = t.creator \/ signer \in admins
        IN  /\ success(out) <=> allowed
            /\ ~allowed =>
                 error(out) = "Only the creator or an admin may cancel this task"

\* ------------------------------------------------------------------------
\* C7 (as claimed): two nodes that applied the same ordered transactions
\* hold identical Stores, every field of every task record included, and
\* their handlers ended the same way.
\* ------------------------------------------------------------------------
C7_NodesConverge ==
    /\ state = replica.state
    /\ last.method \in Transactions => last = replica.last

\* ------------------------------------------------------------------------
\* C8: the counts stats returns satisfy open + completed + cancelled =
\* total, and total is the number of task records in the Store.
\* ------------------------------------------------------------------------
C8_StatsAddUp ==
    LET r == stats(state).result IN
    /\ r.open + r.completed + r.cancelled = r.total
    /\ r.total = Cardinality(TaskKeys(state))

\* stats is called with one task completed and one cancelled
C8_Witness ==
    /\ last.method = "stats"
    /\ stats(state).result = [total |-> 2, open |-> 0, completed |-> 1, cancelled |-> 1]
    /\ task_seq(state) = 2

\* the elements of a sequence
Range(q) == { q[i] : i \in 1..Len(q) }

\* the tasks list_tasks is claimed to return
Listed(st, params) ==
    LET status == destructure(params, "status", null)
        assignee == destructure(params, "assignee", null)
    IN  IF assignee = null /\ status = null THEN Tasks(st)
        ELSE IF assignee = null
        THEN { t \in Tasks(st) : t.id \in smembers(st, "tasks:" \o status.v) }
        ELSE IF status = null THEN { t \in Tasks(st) : t.assignee = assignee }
        ELSE { t \in Tasks(st) : t.assignee = assignee /\ t.status = status.v }

\* ------------------------------------------------------------------------
\* C9: whatever order smembers gives the ids in, list_tasks returns each
\* task once and exactly these: all tasks without a filter, the tasks whose
\* ids are in tasks:<s> for status s alone, the tasks whose assignee is X
\* for assignee X alone, the tasks with assignee X and status s for both;
\* and count is their number.
\* ------------------------------------------------------------------------
C9_ListReturnsExactly ==
    \A params \in ListParams :
    \A ids \in Enumerations(smembers(state, listKey(params))) :
        LET r == list_tasks(state, params, ids).result IN
        /\ Range(r.tasks) = Listed(state, params)
        /\ Len(r.tasks) = Cardinality(Listed(state, params))
        /\ r.count = Len(r.tasks)

\* list_tasks is called when bob has a completed and an open task: bob's
\* tasks are both, bob's open tasks are one, the completed tasks are one
C9_Witness ==
    /\ last.method = "list_tasks"
    /\ \E t, u \in Tasks(state) :
          /\ t.assignee = Str("bob") /\ t.status = "completed"
          /\ u.assignee = Str("bob") /\ u.status = "open"
    /\ Cardinality(Listed(state, [status |-> null, assignee |-> Str("bob")])) = 2
    /\ Cardinality(Listed(state, [status |-> Str("open"), assignee |-> Str("bob")])) = 1
    /\ Cardinality(Listed(state, [status |-> Str("completed"), assignee |-> null])) = 1

\* ------------------------------------------------------------------------
\* C10: a step of list_tasks, get_task or stats leaves the Store as it is
\* and hands nothing to broadcast, also when the view fails.
\* ------------------------------------------------------------------------
C10_ViewsOnlyRead ==
    [][ last'.method \in Views => state' = state /\ last'.sent = <<>> ]_vars

\* get_task failed on an id that names no task, in a Store that has tasks
C10_Witness ==
    /\ last.method = "get_task" /\ last.error = "not found"
    /\ \E t \in Tasks(state) : t.status = "cancelled"

\* ------------------------------------------------------------------------
\* C11: complete_task tests existence, then status, then authorization: an
\* id that names no task gives the not-found error for every signer, a task
\* that is not open gives the not-open error for every signer, creator and
\* assignee or not, and the authorization error is given only for a task
\* that exists and is open.
\* ------------------------------------------------------------------------
C11_CompleteChecksInOrder ==
    \A signer \in Peers : \A params \in IdParams : \A bcast \in BOOLEAN :
        LET id == destructure(params, "id", undefined)
            task == get(state, taskKey(id.v))
            out == complete_task(state, signer, params, clock, bcast)
        IN  /\ ~falsy(id) /\ task = undefined => error(out) = "not found"
            /\ task # undefined /\ task.status # "open" => error(out) = "is not open"
            /\ error(out) = "Only the creator or assignee may complete this task"
                 => task # undefined /\ task.status = "open"

\* complete_task was rejected as not open, in a Store with an open task and
\* a cancelled task that bob and carol neither created nor are assigned
C11_Witness ==
    /\ last.method = "complete_task" /\ last.error = "is not open"
    /\ \E t \in Terminal(state) : t.creator = "alice" /\ t.assignee = null
                                   /\ t.status = "cancelled"
    /\ Open(state) # {}

\* params that pass the validation the claim states: the title is a
\* non-empty string of at most MaxTitleLen characters and the desc is left
\* out or has at most MaxDescLen characters
Valid(params) ==
    LET title == destructure(params, "title", undefined)
        desc == destructure(params, "desc", Str(""))
    IN  /\ title.type = "string" /\ title.v # "" /\ Len(title.v) <= MaxTitleLen
        /\ ~(desc.type = "string" /\ Len(desc.v) > MaxDescLen)

\* ------------------------------------------------------------------------
\* C12 (as claimed): for every signer, add_task succeeds exactly when its
\* params pass validation; a title of 140 characters is accepted, a title
\* of 141 characters is rejected with the title-length error; no call that
\* passes validation fails later in the handler.
\* ------------------------------------------------------------------------
C12_AddSucceedsIffValid ==
    \A signer \in Peers : \A params \in AnyAddParams : \A bcast \in BOOLEAN :
        LET out == add_task(state, signer, params, clock, clock, bcast)
            title == destructure(params, "title", undefined)
        IN  /\ success(out) <=> Valid(params)
            /\ title.type = "string" /\ Len(title.v) = MaxTitleLen + 1
                 => error(out) = "title exceeds 140 characters"

\* ------------------------------------------------------------------------
\* C13 (as claimed): every task record of the Store has a title that is not
\* empty, has at most 140 characters and neither starts nor ends with a
\* blank, and a desc of at most 1000 characters.
\* ------------------------------------------------------------------------
C13_StoredTitleAndDesc ==
    \A t \in Tasks(state) :
        /\ t.title # ""
        /\ Len(t.title) <= MaxTitleLen
        /\ trim(t.title) = t.title
        /\ Len(t.desc) <= MaxDescLen

\* every task with a non-null assignee is in the set of its assignee, and
\* every id of an assignee set is a task with that assignee
AssigneeIndexAgrees ==
    /\ \A t \in Tasks(state) :
          t.assignee # null => t.id \in smembers(state, assigneeKey(t.assignee.v))
    /\ \A k \in AssigneeKeys(state) : \A id \in state[k] :
          /\ has(state, taskKey(id))
          /\ k = assigneeKey(state[taskKey(id)].assignee.v)

\* a step removes no id from an assignee set and changes no task's assignee
AssigneeIndexStep ==
    /\ \A k \in AssigneeKeys(state) : has(state', k) /\ state[k] \subseteq state'[k]
    /\ \A k \in TaskKeys(state) : has(state', k) /\ state'[k].assignee = state[k].assignee

\* ------------------------------------------------------------------------
\* C14 (as claimed): in every reachable state every task whose assignee is
\* non-null has its id in tasks:assignee:<assignee>, and every id in a set
\* tasks:assignee:<X> is a task whose assignee is X; no step removes an id
\* from an assignee set or changes a task's assignee.
\* ------------------------------------------------------------------------
C14_AssigneeIndex == []AssigneeIndexAgrees /\ [][AssigneeIndexStep]_vars

\* the status a transaction gives the task it writes
StatusAfter(method) ==
    CASE method = "add_task" -> "open"
      [] method = "complete_task" -> "completed"
      [] method = "cancel_task" -> "cancelled"

\* the keys of the task records a step wrote
Written == { k \in TaskKeys(state') : ~has(state, k) \/ state'[k] # state[k] }

\* a transaction that returned wrote one task record, gave it the status of
\* its method, has its id in the set of that status, and handed broadcast
\* one task_update with that id and that status; when broadcast was reached
\* and rejected, the writes are in place as well; a transaction that threw
\* sent nothing
NotifiesOnce ==
    last'.method \in Transactions =>
        /\ last'.error \in {"", "broadcast failed"} =>
              \E k \in Written :
                  /\ Written = {k}
                  /\ state'[k].status = StatusAfter(last'.method)
                  /\ StatusSetsOf(state', state'[k].id) = {state'[k].status}
                  /\ last'.error = "" =>
                        last'.sent = <<task_update(state'[k].id, state'[k].status)>>
        /\ last'.error # "" => last'.sent = <<>>

SameOutcome(ko, ok) == ko.state = ok.state /\ ko.result = ok.result

\* ------------------------------------------------------------------------
\* C16 (as claimed): when the broadcast of a transaction fails, the Store
\* writes of the transaction stay in place and the transaction's outcome is
\* the success result it returns when the broadcast succeeds.
\* ------------------------------------------------------------------------
C16_FireAndForget ==
    \A signer \in Peers :
        /\ \A params \in AddParams :
              SameOutcome(add_task(state, signer, params, clock, clock, FALSE),
                          add_task(state, signer, params, clock, clock, TRUE))
        /\ \A params \in IdParams :
              /\ SameOutcome(complete_task(state, signer, params, clock, FALSE),
                             complete_task(state, signer, params, clock, TRUE))
              /\ SameOutcome(cancel_task(state, signer, params, signer \in admins, clock, FALSE),
                             cancel_task(state, signer, params, signer \in admins, clock, TRUE))

\* the field a transaction records its signer in
SignerField(method) ==
    IF method = "complete_task" THEN "completed_by" ELSE "cancelled_by"

\* a complete_task or cancel_task that returned changed one open task T: its
\* status, updated_at and completed_by or cancelled_by; took T's id out of
\* tasks:open and put it into the set of the new status; and left every
\* other field of T and every other key of the Store as it was
FrameStep ==
    last'.method \in {"complete_task", "cancel_task"} /\ last'.error = "" =>
        \E k \in TaskKeys(state) :
            LET T == state[k]
                target == "tasks:" \o StatusAfter(last'.method)
            IN  /\ T.status = "open"
                /\ state'[k].status = StatusAfter(last'.method)
                /\ DOMAIN state'[k] = DOMAIN T \cup {SignerField(last'.method)}
                /\ \A f \in DOMAIN T \ {"status", "updated_at"} : state'[k][f] = T[f]
                /\ state'["tasks:open"] = state["tasks:open"] \ {T.id}
                /\ state'[target] = smembers(state, target) \cup {T.id}
                /\ DOMAIN state' = DOMAIN state \cup {target}
                /\ \A key \in DOMAIN state \ {k, "tasks:open", target} :
                      state'[key] = state[key]

\* no step changes the creator of a task
CreatorKept ==
    \A k \in TaskKeys(state) : has(state', k) /\ state'[k].creator = state[k].creator

\* the task add_task stores has the signer of the call as its creator
CreatorIsSigner ==
    \A signer \in Peers : \A params \in AddParams :
        LET out == add_task(state, signer, params, clock, clock, TRUE)
        IN  success(out) =>
              /\ out.result.task.creator = signer
              /\ out.state[taskKey(out.result.id)].creator = signer

\* ------------------------------------------------------------------------
\* C17: a successful complete_task or cancel_task on task T changes only
\* T's status, updated_at and completed_by or cancelled_by, tasks:open and
\* the set of the new status; T's id, title, desc, assignee, creator and
\* created_at, every other task, tasks:all, the assignee sets, the other
\* terminal set and task_seq stay.  A task's creator is the signer of the
\* add_task that created it, in every later state.
\* ------------------------------------------------------------------------
C17_Frame == [][FrameStep /\ CreatorKept]_vars /\ []CreatorIsSigner

\* bob completed the task assigned to him while another task, cancelled by
\* the admin, is in the Store
C17_Witness ==
    /\ last.method = "complete_task" /\ last.error = ""
    /\ \E t, u \in Tasks(state) :
          /\ t.status = "completed" /\ t.completed_by = "bob" /\ t.assignee = Str("bob")
          /\ u.status = "cancelled" /\ u.cancelled_by = "carol"
    /\ smembers(state, "tasks:open") = {}

\* a task has completed_by exactly when it is completed, and then it names
\* the creator or the assignee; it has cancelled_by exactly when it is
\* cancelled; it never has both
ByFields ==
    \A t \in Tasks(state) :
        /\ "completed_by" \in DOMAIN t <=> t.status = "completed"
        /\ "cancelled_by" \in DOMAIN t <=> t.status = "cancelled"
        /\ ~("completed_by" \in DOMAIN t /\ "cancelled_by" \in DOMAIN t)
        /\ t.status = "completed" =>
              t.completed_by = t.creator \/ Str(t.completed_by) = t.assignee

\* the step that cancels a task records the creator or an identity that is
\* admin in that step, and cancelled_by stays as recorded
CancelledByStep ==
    \A k \in TaskKeys(state') :
        "cancelled_by" \in DOMAIN state'[k] =>
            IF has(state, k) /\ "cancelled_by" \in DOMAIN state[k]
            THEN state'[k].cancelled_by = state[k].cancelled_by
            ELSE \/ state'[k].cancelled_by = state'[k].creator
                 \/ state'[k].cancelled_by \in admins

\* ------------------------------------------------------------------------
\* C18: in every reachable state a task has a completed_by field exactly
\* when its status is completed, and completed_by is then its creator or
\* its assignee; it has a cancelled_by field exactly when its status is
\* cancelled, and cancelled_by is then its creator or an identity that was
\* admin when the cancel was applied; no task has both fields.
\* ------------------------------------------------------------------------
C18_ByFields == []ByFields /\ [][CancelledByStep]_vars

\* the admin, who created nothing, cancelled a task; the other task was
\* completed by its assignee
C18_Witness ==
    /\ last.method = "cancel_task" /\ last.error = ""
    /\ \E t \in Tasks(state) :
          t.status = "cancelled" /\ t.cancelled_by = "carol" /\ t.creator # "carol"
    /\ \E t \in Tasks(state) :
          t.status = "completed" /\ t.completed_by = "bob" /\ t.creator # "bob"
    /\ "carol" \in admins

\* the handlers that run add_task and have their id
Adding == { h \in Handlers : flight[h].method = "add_task" }

\* the awaits of add_task that come after line 243, after line 244 and
\* after line 245
AfterSet == {"sadd_all", "sadd_open", "sadd_assignee", "broadcast"}

AfterSaddAll == {"sadd_open", "sadd_assignee", "broadcast"}

AfterSaddOpen == {"sadd_assignee", "broadcast"}

\* two add_task handlers in flight hold different ids; what a handler has
\* written is in the Store as it wrote it; an add_task that returned has its
\* task stored under its id, with its id in tasks:all and tasks:open; and
\* when no handler is in flight every id handed out is stored that way
AddsApart ==
    /\ \A g, h \in Adding : g # h => flight[g].id # flight[h].id
    /\ \A h \in Adding :
          LET f == flight[h] IN
          /\ f.pc \in AfterSet => get(state, taskKey(f.id)) = f.task
          /\ f.pc \in AfterSaddAll => f.id \in smembers(state, "tasks:all")
          /\ f.pc \in AfterSaddOpen => f.id \in smembers(state, "tasks:open")
    /\ last.method = "add_task" /\ last.error = "" =>
          /\ get(state, taskKey(last.result.id)) = last.result.task
          /\ last.result.id \in smembers(state, "tasks:all")
          /\ last.result.id \in smembers(state, "tasks:open")
    /\ Adding = {} =>
          \A n \in 1..task_seq(state) :
              /\ has(state, taskKey(taskId(n)))
              /\ state[taskKey(taskId(n))].id = taskId(n)
              /\ taskId(n) \in smembers(state, "tasks:all")
              /\ taskId(n) \in smembers(state, "tasks:open")

\* ------------------------------------------------------------------------
\* C19: with state.increment atomic, two add_task handlers that are in
\* flight at the same time, their Store calls interleaved in any order at
\* the awaits, get different ids; afterwards each task is stored under its
\* own key and both ids are in tasks:all and tasks:open: neither handler
\* overwrites what the other wrote.
\* ------------------------------------------------------------------------
C19_ConcurrentAddsApart == AddsApart

\* the handler that got the second id is at its broadcast while the handler
\* that got the first id has not yet added it to tasks:all
C19_Witness ==
    /\ flight["h1"].method = "add_task" /\ flight["h1"].pc = "broadcast"
    /\ flight["h1"].id = taskId(2)
    /\ flight["h2"].method = "add_task" /\ flight["h2"].pc = "sadd_all"
    /\ flight["h2"].id = taskId(1)
    /\ smembers(state, "tasks:all") = {taskId(2)}

\* a complete_task or cancel_task has written the task record and not yet
\* done both its srem and its sadd
HalfApplied ==
    \E h \in Handlers :
        /\ flight[h].method \in {"complete_task", "cancel_task"}
        /\ flight[h].pc \in {"srem", "sadd"}

\* ------------------------------------------------------------------------
\* C20 (as claimed): a stats or list_tasks call that runs while a
\* complete_task or cancel_task is between its Store writes returns counts
\* with open + completed + cancelled = total, and returns no task whose
\* status field disagrees with the status set its id is in.
\* ------------------------------------------------------------------------
C20_ViewsSeeWholeTransactions ==
    HalfApplied =>
        /\ last.method = "stats" =>
              LET r == last.result IN r.open + r.completed + r.cancelled = r.total
        /\ last.method = "list_tasks" =>
              \A t \in Range(last.result.tasks) : StatusSetsOf(state, t.id) = {t.status}

\* the handlers that run complete_task or cancel_task on the task id
Closing(id) ==
    { h \in Handlers : flight[h].method \in {"complete_task", "cancel_task"} /\ flight[h].id = id }

\* the sets tasks:completed and tasks:cancelled the id is in
ClosedSetsOf(st, id) == StatusSetsOf(st, id) \ {"open"}

\* once no complete_task or cancel_task on a task is in flight, a task that
\* is no longer open is in the one of tasks:completed and tasks:cancelled
\* its status field names, and not in the other
EndsInOneSet ==
    \A t \in Tasks(state) :
        Closing(t.id) = {} /\ t.status # "open" => ClosedSetsOf(state, t.id) = {t.status}

\* a complete_task or cancel_task that returned
Closed(call) == call.method \in {"complete_task", "cancel_task"} /\ call.error = ""

\* a complete_task or cancel_task does not return right after another one
\* returned for the same task
NoSecondSuccess ==
    Closed(last) /\ Closed(last') => last'.result.id # last.result.id

\* ------------------------------------------------------------------------
\* C21 (as claimed): of a complete_task and a cancel_task, or two of either,
\* called on the same open task by signers allowed to, at most one returns
\* and the others throw, and the task ends in exactly one of tasks:completed
\* and tasks:cancelled, the one its status field names; this also when the
\* Store calls of the two handlers are interleaved at their awaits, between
\* the read of the task record and the writes.
\* ------------------------------------------------------------------------
C21_OneCloses == []EndsInOneSet /\ [][NoSecondSuccess]_vars

====
